---- MODULE Spec2Model ----
(***************************************************************************)
(* Model of the Yamanote-line delay scraper (src/src/yamanote_scraper.py)  *)
(* and of the dashboard's data loader (src/app.py).                        *)
(*                                                                         *)
(* Text is a sequence of characters.  A character is a one-token string;   *)
(* the Japanese characters the code looks for are written in romaji:       *)
(*   "fun" 分   "i" 以   "jou" 上   "chi" 遅   "en" 延                     *)
(*   "gatsu" 月 "nichi" 日  "ji" 時                                        *)
(*   "shi" 始   "hatsu" 発  "shuu" 終  "den" 電                            *)
(*   "zuke" 付  "go" 合  "kei" 計  "~" the wave dash                       *)
(*   " " a whitespace character, "-" the ASCII dash, "0".."9" the digits.  *)
(*                                                                         *)
(* Spec runs the scraper's main() and the dashboard against the data       *)
(* directory, SpecInterpreter runs the delay interpreter on every cell     *)
(* text, SpecParser runs _parse_date on every date text with the clock     *)
(* moving between its two reads, SpecDateRow runs main() on a page showing *)
(* any date text.  SpecCells, SpecRows and SpecTables run main() on        *)
(* generated pages: one table of two rows of any cells, one table of       *)
(* sample rows, and a page of sample tables.                               *)
(***************************************************************************)
EXTENDS Integers, Sequences, FiniteSets, TLC

VARIABLES
    clock,        \* datetime.now(): [year, month, sec]
    files,        \* the data/ directory: filename -> [data, ctime]
    all_data,     \* the list returned by get_delay_history_data (annotated in place)
    df,           \* the DataFrame scrape_delay_history returned (empty if it raised)
    exit_status,  \* how the last main() ended
    n_runs,       \* number of main() runs of the scraper so far
    cache,        \* st.cache_data entry of load_data(): [hit, found, data]
    shown,        \* what the dashboard's last run displayed
    n_loads,      \* number of dashboard script runs so far
    cell_text,    \* a delay cell's raw text (interpreter specification)
    minutes,      \* <<_extract_delay_minutes(cell_text)>>, << >> before the call
    date_text,    \* the text handed to _parse_date (parser specification)
    parse_pc,     \* position inside _parse_date
    t_year,       \* the instant datetime.now().year was read at (line 116)
    t_month,      \* the instant datetime.now().month was read at (line 125)
    parse_result, \* what _parse_date returned
    page          \* the tables of the fetched page, each a sequence of rows of cells

vars == <<clock, files, all_data, df, exit_status, n_runs, cache, shown, n_loads,
          cell_text, minutes, date_text, parse_pc, t_year, t_month, parse_result, page>>

----------------------------------------------------------------------------
(* Bounds of the model *)

\* longest delay-cell text of the interpreter specification
MaxLen == 5
\* longest date text of the parser specification
MaxDateLen == 6
\* seconds the clock can advance within one month
MaxSec == 1
\* runs of the scraper's main()
MaxRuns == 2
\* runs of the dashboard script
MaxLoads == 2
\* the year the model's clock starts in
StartYear == 2025
\* most cells in a row of the generated two-row tables
MaxCells == 3
\* most rows in a table built from the sample rows
MaxRows == 3
\* most tables on a page built from the sample tables
MaxTables == 3

\* None, where a text (or a match) is expected
NoValue == <<"None">>

----------------------------------------------------------------------------
(* Text helpers: str methods and the two regular expressions *)

Digits == {"0", "1", "2", "3", "4", "5", "6", "7", "8", "9"}

Whitespace == {" "}

IsDigit(c) == c \in Digits

\* int() of one decimal digit
DigitValue(c) ==
    CASE c = "0" -> 0 [] c = "1" -> 1 [] c = "2" -> 2 [] c = "3" -> 3
      [] c = "4" -> 4 [] c = "5" -> 5 [] c = "6" -> 6 [] c = "7" -> 7
      [] c = "8" -> 8 [] c = "9" -> 9

\* int() of a run of decimal digits
RECURSIVE IntOf(_)
IntOf(ds) ==
    IF ds = <<>> THEN 0
    ELSE 10 * IntOf(SubSeq(ds, 1, Len(ds) - 1)) + DigitValue(ds[Len(ds)])

\* `sub in s` of Python strings
Contains(s, sub) ==
    \E i \in 1..(Len(s) - Len(sub) + 1) : SubSeq(s, i, i + Len(sub) - 1) = sub

\* str.strip(): drop leading and trailing whitespace
RECURSIVE Strip(_)
Strip(s) ==
    IF s = <<>> THEN s
    ELSE IF s[1] \in Whitespace THEN Strip(Tail(s))
    ELSE IF s[Len(s)] \in Whitespace THEN Strip(SubSeq(s, 1, Len(s) - 1))
    ELSE s

\* cell.get_text(strip=True) of a cell holding one text node
GetText(cell) == Strip(cell)

\* end of the longest run of digits of s that starts at i (i - 1 if s[i] is no digit)
RECURSIVE DigitRunEnd(_, _)
DigitRunEnd(s, i) ==
    IF i <= Len(s) /\ IsDigit(s[i]) THEN DigitRunEnd(s, i + 1) ELSE i - 1

\* re.search(r'(\d)分', s): the pattern without the +, one digit captured
RECURSIVE SearchOneDigit(_, _)
SearchOneDigit(s, i) ==
    IF i > Len(s) THEN NoValue
    ELSE IF i + 1 <= Len(s) /\ IsDigit(s[i]) /\ s[i + 1] = "fun" THEN <<s[i]>>
    ELSE SearchOneDigit(s, i + 1)

\* re.search(r'(\d+)分', s) tried from position i on: group(1), or NoValue
RECURSIVE SearchMinutes(_, _)
SearchMinutes(s, i) ==
    IF i > Len(s) THEN NoValue
    ELSE LET j == DigitRunEnd(s, i)
         IN  IF j >= i /\ j + 1 <= Len(s) /\ s[j + 1] = "fun"
             THEN SubSeq(s, i, j)
             ELSE SearchMinutes(s, i + 1)

Marker61 == <<"6", "1", "fun", "i", "jou">>
Marker60 == <<"6", "0", "fun", "i", "jou">>
MarkerDelay == <<"chi", "en">>

\* _extract_delay_minutes, with the digits rule tried before the markers
ExtractDigitsFirst(delay_info) ==
    IF delay_info = <<>> \/ delay_info = <<"-">> \/ Strip(delay_info) = <<>> THEN 0
    ELSE IF SearchMinutes(delay_info, 1) /= NoValue
         THEN IntOf(SearchMinutes(delay_info, 1))
    ELSE IF Contains(delay_info, Marker61) \/ Contains(delay_info, Marker60) THEN 61
    ELSE IF Contains(delay_info, MarkerDelay) THEN 5
    ELSE 0

\* _extract_delay_minutes
ExtractDelayMinutes(delay_info) ==
    IF delay_info = <<>> \/ delay_info = <<"-">> \/ Strip(delay_info) = <<>> THEN 0
    ELSE IF Contains(delay_info, Marker61) \/ Contains(delay_info, Marker60) THEN 61
    ELSE IF SearchMinutes(delay_info, 1) /= NoValue
         THEN IntOf(SearchMinutes(delay_info, 1))
    ELSE IF Contains(delay_info, MarkerDelay) THEN 5
    ELSE 0

----------------------------------------------------------------------------
(* Date Normalizer: _parse_date *)

\* does r'(\d{1,2})月(\d{1,2})日' match at i with a month digits and b day digits
DateFits(s, i, a, b) ==
    /\ i + a + b + 1 <= Len(s)
    /\ \A k \in i..(i + a - 1) : IsDigit(s[k])
    /\ s[i + a] = "gatsu"
    /\ \A k \in (i + a + 1)..(i + a + b) : IsDigit(s[k])
    /\ s[i + a + b + 1] = "nichi"

\* the match of the pattern at i: <<group(1), group(2)>>, the quantifiers greedy
MatchDateAt(s, i) ==
    LET Groups(a, b) == <<SubSeq(s, i, i + a - 1), SubSeq(s, i + a + 1, i + a + b)>>
    IN  IF DateFits(s, i, 2, 2) THEN Groups(2, 2)
        ELSE IF DateFits(s, i, 2, 1) THEN Groups(2, 1)
        ELSE IF DateFits(s, i, 1, 2) THEN Groups(1, 2)
        ELSE IF DateFits(s, i, 1, 1) THEN Groups(1, 1)
        ELSE NoValue

\* re.search(r'(\d{1,2})月(\d{1,2})日', s) tried from position i on
RECURSIVE SearchDate(_, _)
SearchDate(s, i) ==
    IF i > Len(s) THEN NoValue
    ELSE IF MatchDateAt(s, i) /= NoValue THEN MatchDateAt(s, i)
    ELSE SearchDate(s, i + 1)

DigitChar(k) ==
    CASE k = 0 -> "0" [] k = 1 -> "1" [] k = 2 -> "2" [] k = 3 -> "3"
      [] k = 4 -> "4" [] k = 5 -> "5" [] k = 6 -> "6" [] k = 7 -> "7"
      [] k = 8 -> "8" [] k = 9 -> "9"

\* str(n) of a natural number
RECURSIVE DigitsOf(_)
DigitsOf(n) ==
    IF n < 10 THEN <<DigitChar(n)>> ELSE Append(DigitsOf(n \div 10), DigitChar(n % 10))

\* f"{n:0<width>d}" of a natural number
RECURSIVE ZeroPad(_, _)
ZeroPad(ds, width) == IF Len(ds) >= width THEN ds ELSE ZeroPad(<<"0">> \o ds, width)

\* f"{year:04d}-{month:02d}-{day:02d}"
FormatDate(year, month, day) ==
    ZeroPad(DigitsOf(year), 4) \o <<"-">> \o ZeroPad(DigitsOf(month), 2)
        \o <<"-">> \o ZeroPad(DigitsOf(day), 2)

\* the year inference of _parse_date with >= in place of >
InferYearInclusive(month, current_year, current_month) ==
    IF month >= current_month THEN current_year - 1 ELSE current_year

\* lines 126-129: a month later than the current month belongs to the previous year
InferYear(month, current_year, current_month) ==
    IF month > current_month THEN current_year - 1 ELSE current_year

\* _parse_date; now1 is the clock at line 116, now2 the clock at line 125
ParseDate(text, now1, now2) ==
    LET current_year == now1.year
        match == SearchDate(text, 1)
    IN  IF match /= NoValue
        THEN LET month == IntOf(match[1])
                 day == IntOf(match[2])
                 current_month == now2.month
             IN  FormatDate(InferYear(month, current_year, current_month), month, day)
        ELSE NoValue

----------------------------------------------------------------------------
(* datetime.strptime(s, '%Y-%m-%d'), date.weekday(), the weekday labels *)

IsLeap(y) == (y % 4 = 0) /\ ((y % 100 /= 0) \/ (y % 400 = 0))

DaysInMonth(y, m) ==
    IF m = 2 THEN (IF IsLeap(y) THEN 29 ELSE 28)
    ELSE IF m \in {4, 6, 9, 11} THEN 30 ELSE 31

\* the text has the shape dddd-dd-dd
IsIsoShape(s) ==
    /\ Len(s) = 10
    /\ \A k \in {1, 2, 3, 4, 6, 7, 9, 10} : IsDigit(s[k])
    /\ s[5] = "-" /\ s[8] = "-"

IsoYear(s) == IntOf(SubSeq(s, 1, 4))
IsoMonth(s) == IntOf(SubSeq(s, 6, 7))
IsoDay(s) == IntOf(SubSeq(s, 9, 10))

\* strptime succeeds: %m takes 01..12, %d takes 01..31, and the date exists
StrptimeOk(s) ==
    /\ IsIsoShape(s)
    /\ IsoYear(s) >= 1
    /\ IsoMonth(s) \in 1..12
    /\ IsoDay(s) \in 1..31
    /\ IsoDay(s) <= DaysInMonth(IsoYear(s), IsoMonth(s))

\* datetime.strptime(s, '%Y-%m-%d') where it does not raise ValueError
Strptime(s) == [year |-> IsoYear(s), month |-> IsoMonth(s), day |-> IsoDay(s)]

RECURSIVE DaysBeforeMonth(_, _)
DaysBeforeMonth(y, m) ==
    IF m = 1 THEN 0 ELSE DaysBeforeMonth(y, m - 1) + DaysInMonth(y, m - 1)

\* date.toordinal(): 0001-01-01 is day 1
ToOrdinal(d) ==
    LET y == d.year - 1
    IN  y * 365 + (y \div 4) - (y \div 100) + (y \div 400)
          + DaysBeforeMonth(d.year, d.month) + d.day

\* date.weekday(): Monday is 0
Weekday(d) == (ToOrdinal(d) + 6) % 7

\* the lookup table with Sunday first
SundayFirstWeekday(weekday) ==
    <<"nichi", "getsu", "ka", "sui", "moku", "kin", "do">>[weekday + 1]

\* _get_japanese_weekday: 月 火 水 木 金 土 日
GetJapaneseWeekday(weekday) ==
    <<"getsu", "ka", "sui", "moku", "kin", "do", "nichi">>[weekday + 1]

\* date_obj.strftime('%A')
WeekdayName(weekday) ==
    <<"Monday", "Tuesday", "Wednesday", "Thursday", "Friday", "Saturday", "Sunday">>[weekday + 1]

----------------------------------------------------------------------------
(* Record Assembler: get_delay_history_data.  A page is a sequence of      *)
(* tables, a table a sequence of rows, a row a sequence of cells, a cell   *)
(* its raw text.                                                           *)

MarkerFirstTrain == <<"shi", "hatsu">>
MarkerLastTrain == <<"shuu", "den">>
MarkerHour == <<"ji">>

\* ''.join([cell.get_text(strip=True) for cell in cells])
RECURSIVE JoinText(_)
JoinText(cells) ==
    IF cells = <<>> THEN <<>> ELSE GetText(Head(cells)) \o JoinText(Tail(cells))

\* lines 50-52: the row's text holds both 始発 and 終電
IsHeaderRow(row) ==
    /\ Contains(JoinText(row), MarkerFirstTrain)
    /\ Contains(JoinText(row), MarkerLastTrain)

\* lines 48-54: index of the first header row among rows i.., 0 if there is none
RECURSIVE FindHeaderRow(_, _)
FindHeaderRow(rows, i) ==
    IF i > Len(rows) THEN 0
    ELSE IF IsHeaderRow(rows[i]) THEN i
    ELSE FindHeaderRow(rows, i + 1)

\* line 64: the label filter
IsTimeSlot(time_slot) ==
    /\ time_slot /= <<>>
    /\ \/ Contains(time_slot, MarkerHour)
       \/ Contains(time_slot, MarkerFirstTrain)
       \/ Contains(time_slot, MarkerLastTrain)

\* lines 60-65: the accepted labels of header_cells[1:], in order
RECURSIVE TimeSlotsOf(_)
TimeSlotsOf(cells) ==
    IF cells = <<>> THEN <<>>
    ELSE (IF IsTimeSlot(GetText(Head(cells))) THEN <<GetText(Head(cells))>> ELSE <<>>)
            \o TimeSlotsOf(Tail(cells))

TimeSlots(header_row) == IF header_row = <<>> THEN <<>> ELSE TimeSlotsOf(Tail(header_row))

\* the record of lines 94-100 with the flag taken from the cell text, not the count
DelayRecordFlagFromText(parsed_date, time_slot, delay_info) ==
    [date |-> parsed_date,
     time_slot |-> time_slot,
     delay_info |-> delay_info,
     delay_minutes |-> ExtractDelayMinutes(delay_info),
     has_delay |-> ~(delay_info = <<>> \/ delay_info = <<"-">>)]

\* lines 92-100: the record of one delay cell
DelayRecord(parsed_date, time_slot, delay_info) ==
    LET delay_minutes == ExtractDelayMinutes(delay_info)
    IN  [date |-> parsed_date,
         time_slot |-> time_slot,
         delay_info |-> delay_info,
         delay_minutes |-> delay_minutes,
         has_delay |-> delay_minutes > 0]

\* a slot loop that stops one cell before the row's last cell
RECURSIVE SlotRecordsShort(_, _, _, _)
SlotRecordsShort(cells, time_slots, parsed_date, i) ==
    IF i > Len(time_slots) THEN <<>>
    ELSE (IF i + 1 < Len(cells)
          THEN <<DelayRecord(parsed_date, time_slots[i], GetText(cells[i + 1]))>>
          ELSE <<>>)
            \o SlotRecordsShort(cells, time_slots, parsed_date, i + 1)

\* lines 86-100: the records of the slots i.. of one data row
RECURSIVE SlotRecords(_, _, _, _)
SlotRecords(cells, time_slots, parsed_date, i) ==
    IF i > Len(time_slots) THEN <<>>
    ELSE (IF i + 1 <= Len(cells)
          THEN <<DelayRecord(parsed_date, time_slots[i], GetText(cells[i + 1]))>>
          ELSE <<>>)
            \o SlotRecords(cells, time_slots, parsed_date, i + 1)

\* a row assembler that goes on with a row whose date did not parse
RowRecordsKeepUndated(cells, time_slots, now1, now2) ==
    IF Len(cells) < 2 THEN <<>>
    ELSE SlotRecords(cells, time_slots, ParseDate(GetText(cells[1]), now1, now2), 1)

\* lines 72-100: the records of one data row
RowRecords(cells, time_slots, now1, now2) ==
    IF Len(cells) < 2 THEN <<>>
    ELSE LET parsed_date == ParseDate(GetText(cells[1]), now1, now2)
         IN  IF parsed_date = NoValue THEN <<>>
             ELSE SlotRecords(cells, time_slots, parsed_date, 1)

\* lines 68-100: the records of the rows i.. of a table; a row equal to the header is skipped
RECURSIVE DataRowRecords(_, _, _, _, _)
DataRowRecords(rows, header_row, i, now1, now2) ==
    IF i > Len(rows) THEN <<>>
    ELSE (IF rows[i] = header_row THEN <<>>
          ELSE RowRecords(rows[i], TimeSlots(header_row), now1, now2))
            \o DataRowRecords(rows, header_row, i + 1, now1, now2)

\* lines 44-100: the records of one table
TableRecords(rows, now1, now2) ==
    LET h == FindHeaderRow(rows, 1)
    IN  IF h = 0 THEN <<>> ELSE DataRowRecords(rows, rows[h], 1, now1, now2)

\* a page loop that puts the records of the later tables first
RECURSIVE PageRecordsLaterFirst(_, _, _, _)
PageRecordsLaterFirst(tables, i, now1, now2) ==
    IF i > Len(tables) THEN <<>>
    ELSE PageRecordsLaterFirst(tables, i + 1, now1, now2) \o TableRecords(tables[i], now1, now2)

\* lines 44-100: the records of the tables i.. of the page
RECURSIVE PageRecords(_, _, _, _)
PageRecords(tables, i, now1, now2) ==
    IF i > Len(tables) THEN <<>>
    ELSE TableRecords(tables[i], now1, now2) \o PageRecords(tables, i + 1, now1, now2)

\* get_delay_history_data: a failed fetch gives the empty list (lines 105-107)
GetDelayHistoryData(fetch_ok, tables, now1, now2) ==
    IF fetch_ok THEN PageRecords(tables, 1, now1, now2) ELSE <<>>

----------------------------------------------------------------------------
(* scrape_delay_history, save_data and main of the scraper *)

\* lines 170-177: the weekday columns of one record; 不明 where strptime raises
Annotate(data) ==
    LET known == StrptimeOk(data.date)
        wd == Weekday(Strptime(data.date))
    IN  [date |-> data.date,
         time_slot |-> data.time_slot,
         delay_info |-> data.delay_info,
         delay_minutes |-> data.delay_minutes,
         has_delay |-> data.has_delay,
         weekday |-> IF known THEN WeekdayName(wd) ELSE "Unknown",
         weekday_jp |-> IF known THEN GetJapaneseWeekday(wd) ELSE "fumei"]

\* lines 167-177: the fetched list with the weekday columns added
AnnotatedData(fetch_ok, tables, now1, now2) ==
    LET data == GetDelayHistoryData(fetch_ok, tables, now1, now2)
    IN  [i \in 1..Len(data) |-> Annotate(data[i])]

\* line 183: pd.to_datetime raises on a text that is no calendar date
ToDatetimeRaises(data) == \E i \in 1..Len(data) : ~StrptimeOk(data[i].date)

\* lines 179-184: the DataFrame, its date column converted to timestamps
DataFrame(data) ==
    [i \in 1..Len(data) |-> [data[i] EXCEPT !.date = Strptime(data[i].date)]]

\* df.empty
DfEmpty(d) == d = <<>>

\* a main() that saves whatever was scraped
SaveAlways(d) == TRUE

\* line 228: main saves only a DataFrame that is not empty
ShouldSave(d) == ~DfEmpty(d)

\* a timestamp that leaves the seconds out
FilenameWithoutSeconds(now) == <<now.year, now.month, 0>>

\* lines 205-206: yamanote_delay_data_%Y%m%d_%H%M%S.csv of the current time
DefaultFilename(now) == <<now.year, now.month, now.sec>>

\* df.to_csv: the date column is written as YYYY-MM-DD
ToCsv(d) ==
    [i \in 1..Len(d) |->
        [d[i] EXCEPT !.date = FormatDate(d[i].date.year, d[i].date.month, d[i].date.day)]]

\* lines 202-216: the directory after save_data(df) at time now
SaveData(dir, d, now) ==
    LET filename == DefaultFilename(now)
    IN  [f \in DOMAIN dir \cup {filename} |->
            IF f = filename THEN [data |-> ToCsv(d), ctime |-> now] ELSE dir[f]]

----------------------------------------------------------------------------
(* load_data of the dashboard *)

\* a is an earlier instant than b
Earlier(a, b) ==
    \/ a.year < b.year
    \/ a.year = b.year /\ a.month < b.month
    \/ a.year = b.year /\ a.month = b.month /\ a.sec < b.sec

\* line 54: max(data_files, key=os.path.getctime)
LatestFile(dir) ==
    CHOOSE f \in DOMAIN dir : \A g \in DOMAIN dir : ~Earlier(dir[f].ctime, dir[g].ctime)

\* lines 57-58: pd.read_csv reads an empty field as NaN; the date column is converted
ReadCsv(rows) ==
    [i \in 1..Len(rows) |->
        [rows[i] EXCEPT !.date = Strptime(rows[i].date),
                        !.delay_info = IF rows[i].delay_info = <<>> THEN <<"NaN">>
                                       ELSE rows[i].delay_info]]

\* lines 47-59: None without a file, else the latest file's data
LoadData(dir) ==
    IF DOMAIN dir = {} THEN [found |-> FALSE, data |-> <<>>]
    ELSE [found |-> TRUE, data |-> ReadCsv(dir[LatestFile(dir)].data)]

----------------------------------------------------------------------------
(* The pages the scraper is run on *)

\* 日付 | 始発~7時 | 7時~終電
HeaderRow ==
    <<<<"nichi", "zuke">>, <<"shi", "hatsu", "~", "7", "ji">>, <<"7", "ji", "~", "shuu", "den">>>>

\* 7月3日 | - | 10分
RowJuly == <<<<"7", "gatsu", "3", "nichi">>, <<"-">>, <<"1", "0", "fun">>>>
\* 12月25日 | 遅延 | (empty)
RowDecember == <<<<"1", "2", "gatsu", "2", "5", "nichi">>, <<"chi", "en">>, <<>>>>
\* 2月30日 | - | -
RowImpossibleDay == <<<<"2", "gatsu", "3", "0", "nichi">>, <<"-">>, <<"-">>>>
\* a row without a date: 合計 | 10分
RowNoDate == <<<<"go", "kei">>, <<"1", "0", "fun">>>>

Pages ==
    { <<>>,                                      \* a page without tables
      <<<<HeaderRow, RowJuly>>>>,
      <<<<HeaderRow, RowDecember, RowJuly>>>>,
      <<<<HeaderRow, RowJuly, RowImpossibleDay>>>>,
      <<<<HeaderRow, RowNoDate>>>>,              \* a header and no dated row
      <<<<RowJuly, RowDecember>>>> }             \* no header row in any table

\* a page whose one data row holds the given delay cell
PageWithCell(cell) ==
    <<<<HeaderRow, <<<<"7", "gatsu", "3", "nichi">>, cell>>>>>>

\* all texts of at most n characters over an alphabet
Texts(alphabet, n) == UNION {[1..k -> alphabet] : k \in 0..n}

DelayChars == {"0", "1", "6", "fun", "i", "jou", "chi", "en", "-", " "}

DateChars == {"0", "1", "3", "gatsu", "nichi"}

----------------------------------------------------------------------------
(* The clock *)

July == [year |-> StartYear, month |-> 7, sec |-> 0]
December == [year |-> StartYear, month |-> 12, sec |-> 0]

\* the clock moves on by a second
TickSecond ==
    /\ clock.sec < MaxSec
    /\ clock' = [clock EXCEPT !.sec = clock.sec + 1]
    /\ UNCHANGED <<files, all_data, df, exit_status, n_runs, cache, shown, n_loads,
                   cell_text, minutes, date_text, parse_pc, t_year, t_month, parse_result, page>>

\* the clock passes from December into January of the next year
NewYear ==
    /\ clock.year = StartYear
    /\ clock.month = 12
    /\ clock' = [year |-> clock.year + 1, month |-> 1, sec |-> 0]
    /\ UNCHANGED <<files, all_data, df, exit_status, n_runs, cache, shown, n_loads,
                   cell_text, minutes, date_text, parse_pc, t_year, t_month, parse_result, page>>

----------------------------------------------------------------------------
(* The scraper and the dashboard as run by the user *)

EmptyDir == [f \in {} |-> NoValue]

NoData == [found |-> FALSE, data |-> <<>>]

\* main() of yamanote_scraper.py on one fetch outcome and page, from start to exit.
\* The clock stands still during the run; SpecParser takes the two clock reads of
\* _parse_date apart.
MainOn(fetch_ok, tables) ==
    LET data == AnnotatedData(fetch_ok, tables, clock, clock)
    IN  /\ all_data' = data
        /\ IF ~DfEmpty(data) /\ ToDatetimeRaises(data)
           THEN \* line 183 raises and nothing catches it
                /\ df' = <<>>
                /\ exit_status' = "exception"
                /\ files' = files
           ELSE /\ df' = DataFrame(data)
                /\ IF ShouldSave(df')
                   THEN /\ files' = SaveData(files, df', clock)
                        /\ exit_status' = "saved"
                   ELSE /\ files' = files
                        /\ exit_status' = "message"
        /\ n_runs' = n_runs + 1
        /\ UNCHANGED <<clock, cache, shown, n_loads,
                       cell_text, minutes, date_text, parse_pc, t_year, t_month, parse_result, page>>

\* a run of the scraper
Main ==
    /\ n_runs < MaxRuns
    /\ \E fetch_ok \in BOOLEAN, tables \in Pages : MainOn(fetch_ok, tables)

\* one run of the dashboard script: main() of app.py up to the data it displays
DashboardRun ==
    /\ n_loads < MaxLoads
    /\ LET value == IF cache.hit THEN [found |-> cache.found, data |-> cache.data]
                    ELSE LoadData(files)
       IN  /\ cache' = [hit |-> TRUE, found |-> value.found, data |-> value.data]
           /\ shown' = value
    /\ n_loads' = n_loads + 1
    /\ UNCHANGED <<clock, files, all_data, df, exit_status, n_runs,
                   cell_text, minutes, date_text, parse_pc, t_year, t_month, parse_result, page>>

Init ==
    /\ clock \in {July, December}
    /\ files = EmptyDir
    /\ all_data = <<>>
    /\ df = <<>>
    /\ exit_status = "not run"
    /\ n_runs = 0
    /\ cache = [hit |-> FALSE, found |-> FALSE, data |-> <<>>]
    /\ shown = NoData
    /\ n_loads = 0
    /\ cell_text = <<>>
    /\ minutes = <<>>
    /\ date_text = <<>>
    /\ parse_pc = "idle"
    /\ t_year = clock
    /\ t_month = clock
    /\ parse_result = NoValue
    /\ page = <<>>

Next == TickSecond \/ NewYear \/ Main \/ DashboardRun

Spec == Init /\ [][Next]_vars

----------------------------------------------------------------------------
(* The Delay Duration Interpreter on every cell text *)

\* one delay cell is interpreted, directly and through the assembler
InterpretCell ==
    /\ minutes = <<>>
    /\ minutes' = <<ExtractDelayMinutes(cell_text)>>
    /\ all_data' = GetDelayHistoryData(TRUE, PageWithCell(cell_text), clock, clock)
    /\ UNCHANGED <<clock, files, df, exit_status, n_runs, cache, shown, n_loads,
                   cell_text, date_text, parse_pc, t_year, t_month, parse_result, page>>

InitInterpreter ==
    /\ clock = July
    /\ files = EmptyDir
    /\ all_data = <<>>
    /\ df = <<>>
    /\ exit_status = "not run"
    /\ n_runs = 0
    /\ cache = [hit |-> FALSE, found |-> FALSE, data |-> <<>>]
    /\ shown = NoData
    /\ n_loads = 0
    /\ cell_text \in Texts(DelayChars, MaxLen)
    /\ minutes = <<>>
    /\ date_text = <<>>
    /\ parse_pc = "idle"
    /\ t_year = clock
    /\ t_month = clock
    /\ parse_result = NoValue
    /\ page = <<>>

NextInterpreter == InterpretCell

SpecInterpreter == InitInterpreter /\ [][NextInterpreter]_vars

----------------------------------------------------------------------------
(* The Date Normalizer on every date text, the clock running beside it *)

\* line 116: current_year = datetime.now().year
ParseReadYear ==
    /\ parse_pc = "start"
    /\ t_year' = clock
    /\ parse_pc' = "year read"
    /\ UNCHANGED <<clock, files, all_data, df, exit_status, n_runs, cache, shown, n_loads,
                   cell_text, minutes, date_text, t_month, parse_result, page>>

\* lines 119-133: the match, datetime.now().month and the result
ParseFinish ==
    /\ parse_pc = "year read"
    /\ t_month' = IF SearchDate(date_text, 1) /= NoValue THEN clock ELSE t_month
    /\ parse_result' = ParseDate(date_text, t_year, clock)
    /\ parse_pc' = "done"
    /\ UNCHANGED <<clock, files, all_data, df, exit_status, n_runs, cache, shown, n_loads,
                   cell_text, minutes, date_text, t_year, page>>

InitParser ==
    /\ clock \in {July, December}
    /\ files = EmptyDir
    /\ all_data = <<>>
    /\ df = <<>>
    /\ exit_status = "not run"
    /\ n_runs = 0
    /\ cache = [hit |-> FALSE, found |-> FALSE, data |-> <<>>]
    /\ shown = NoData
    /\ n_loads = 0
    /\ cell_text = <<>>
    /\ minutes = <<>>
    /\ date_text \in Texts(DateChars, MaxDateLen)
    /\ parse_pc = "start"
    /\ t_year = clock
    /\ t_month = clock
    /\ parse_result = NoValue
    /\ page = <<>>

NextParser == ParseReadYear \/ ParseFinish \/ NewYear

SpecParser == InitParser /\ [][NextParser]_vars

----------------------------------------------------------------------------
(* The scraper on a page that shows any date text *)

\* a page whose one data row starts with the given date cell
PageWithDate(cell) == <<<<HeaderRow, <<cell, <<"-">>>>>>>>

\* a run of the scraper on a page that shows the date text
MainOnDate ==
    /\ n_runs = 0
    /\ MainOn(TRUE, PageWithDate(date_text))

InitDateRow ==
    /\ clock \in {July, December}
    /\ files = EmptyDir
    /\ all_data = <<>>
    /\ df = <<>>
    /\ exit_status = "not run"
    /\ n_runs = 0
    /\ cache = [hit |-> FALSE, found |-> FALSE, data |-> <<>>]
    /\ shown = NoData
    /\ n_loads = 0
    /\ cell_text = <<>>
    /\ minutes = <<>>
    /\ date_text \in Texts(DateChars, MaxDateLen)
    /\ parse_pc = "idle"
    /\ t_year = clock
    /\ t_month = clock
    /\ parse_result = NoValue
    /\ page = <<>>

NextDateRow == NewYear \/ MainOnDate

SpecDateRow == InitDateRow /\ [][NextDateRow]_vars

----------------------------------------------------------------------------
(* The scraper on generated pages *)

\* the state before the scraper runs on the page p
InitOnPage(p) ==
    /\ clock = July
    /\ files = EmptyDir
    /\ all_data = <<>>
    /\ df = <<>>
    /\ exit_status = "not run"
    /\ n_runs = 0
    /\ cache = [hit |-> FALSE, found |-> FALSE, data |-> <<>>]
    /\ shown = NoData
    /\ n_loads = 0
    /\ cell_text = <<>>
    /\ minutes = <<>>
    /\ date_text = <<>>
    /\ parse_pc = "idle"
    /\ t_year = clock
    /\ t_month = clock
    /\ parse_result = NoValue
    /\ page = p

\* a run of the scraper on the page
MainOnPage ==
    /\ n_runs = 0
    /\ MainOn(TRUE, page)

NextOnPage == MainOnPage

\* the cells of the generated rows: 7月3日, 始発, 終電, an empty cell, 10分
Cells ==
    { <<"7", "gatsu", "3", "nichi">>, <<"shi", "hatsu">>, <<"shuu", "den">>,
      <<>>, <<"1", "0", "fun">> }

\* one table of two rows, each of at most MaxCells cells
InitCells == \E r1 \in Texts(Cells, MaxCells), r2 \in Texts(Cells, MaxCells) :
                 InitOnPage(<<<<r1, r2>>>>)

SpecCells == InitCells /\ [][NextOnPage]_vars

\* a header-like row that starts with a date: 7月3日 | 始発 | 終電
DatedHeaderRow == <<<<"7", "gatsu", "3", "nichi">>, <<"shi", "hatsu">>, <<"shuu", "den">>>>
\* a row of one cell: 12月25日
RowShort == <<<<"1", "2", "gatsu", "2", "5", "nichi">>>>

SampleRows == {HeaderRow, DatedHeaderRow, RowJuly, RowDecember, RowNoDate, RowShort}

\* one table of at most MaxRows sample rows
InitRows == \E t \in Texts(SampleRows, MaxRows) : InitOnPage(<<t>>)

SpecRows == InitRows /\ [][NextOnPage]_vars

SampleTables ==
    { <<HeaderRow, RowJuly, RowDecember>>,
      <<HeaderRow, RowDecember>>,
      <<HeaderRow, RowNoDate, RowJuly>>,
      <<RowJuly, RowDecember>>,                  \* no header row
      <<HeaderRow>>,
      <<DatedHeaderRow, RowJuly>> }

\* a page of at most MaxTables sample tables
InitTables == \E p \in Texts(SampleTables, MaxTables) : InitOnPage(p)

SpecTables == InitTables /\ [][NextOnPage]_vars

----------------------------------------------------------------------------
(* Properties of the Delay Duration Interpreter and of the records *)

\* the value of a decimal numeral, read from the left
RECURSIVE DecimalValue(_, _)
DecimalValue(ds, acc) ==
    IF ds = <<>> THEN acc
    ELSE DecimalValue(Tail(ds), 10 * acc + (CHOOSE v \in 0..9 : DigitChar(v) = Head(ds)))

\* C1: every record the assembler emits has has_delay = (delay_minutes > 0),
\* whatever the text of its cell.
C1_FlagMatchesMinutes ==
    \A k \in 1..Len(all_data) :
        all_data[k].has_delay = (all_data[k].delay_minutes > 0)

\* a cell that is no placeholder and still counts zero minutes has been assembled
C1_Witness ==
    \E k \in 1..Len(all_data) :
        /\ all_data[k].delay_info = <<"0", "fun">>
        /\ all_data[k].delay_minutes = 0
        /\ ~all_data[k].has_delay

\* the text is <N>分: one or more digits and then 分
IsMinutesText(t) ==
    /\ Len(t) >= 2
    /\ t[Len(t)] = "fun"
    /\ \A k \in 1..(Len(t) - 1) : t[k] \in Digits

\* the N of a text <N>分
MinutesOfText(t) == DecimalValue(SubSeq(t, 1, Len(t) - 1), 0)

\* C2 as stated: the record of a cell "<N>分" has delay_minutes = N and has_delay = true,
\* also for N = 0.
C2_Original ==
    \A k \in 1..Len(all_data) :
        IsMinutesText(all_data[k].delay_info) =>
            /\ all_data[k].delay_minutes = MinutesOfText(all_data[k].delay_info)
            /\ all_data[k].has_delay = TRUE

\* C2 as amended: the record of a cell "<N>分" has delay_minutes = N, and has_delay is
\* true exactly when N > 0; for N = 0 the record is (0, false).
C2_Amended ==
    \A k \in 1..Len(all_data) :
        IsMinutesText(all_data[k].delay_info) =>
            /\ all_data[k].delay_minutes = MinutesOfText(all_data[k].delay_info)
            /\ all_data[k].has_delay = (MinutesOfText(all_data[k].delay_info) > 0)

\* the cell "00分" has been assembled into a record without delay
C2_Witness ==
    \E k \in 1..Len(all_data) :
        /\ all_data[k].delay_info = <<"0", "0", "fun">>
        /\ all_data[k].has_delay = FALSE

\* rule 1: empty, "-" or whitespace only
IsPlaceholder(t) ==
    \/ Len(t) = 0
    \/ Len(t) = 1 /\ t[1] = "-"
    \/ \A k \in 1..Len(t) : t[k] = " "

\* rule 2: 61分以上 or 60分以上 occurs in the text
HasOverMarker(t) ==
    \E k \in 1..Len(t) :
        /\ k + 4 <= Len(t)
        /\ t[k] = "6" /\ t[k + 1] \in {"0", "1"}
        /\ t[k + 2] = "fun" /\ t[k + 3] = "i" /\ t[k + 4] = "jou"

\* rule 3: the places <<i, j>> where digits i..j are followed by 分
MinuteMatches(t) ==
    {m \in (1..Len(t)) \X (1..Len(t)) :
        /\ m[1] <= m[2]
        /\ m[2] < Len(t)
        /\ \A k \in m[1]..m[2] : t[k] \in Digits
        /\ t[m[2] + 1] = "fun"}

\* the match that starts first
FirstMinuteMatch(t) ==
    CHOOSE m \in MinuteMatches(t) : \A n \in MinuteMatches(t) : m[1] <= n[1]

\* rule 4: 遅延 occurs in the text
HasDelayWord(t) == \E k \in 1..(Len(t) - 1) : t[k] = "chi" /\ t[k + 1] = "en"

\* the count the priority chain of the claim gives
ChainMinutes(t) ==
    IF IsPlaceholder(t) THEN 0
    ELSE IF HasOverMarker(t) THEN 61
    ELSE IF MinuteMatches(t) /= {}
         THEN DecimalValue(SubSeq(t, FirstMinuteMatch(t)[1], FirstMinuteMatch(t)[2]), 0)
    ELSE IF HasDelayWord(t) THEN 5
    ELSE 0

\* C3: _extract_delay_minutes returns the count of the first matching rule, in the order
\* placeholder (0), 61分以上 or 60分以上 (61), first <N>分 (N), 遅延 (5), anything else (0).
C3_PriorityChain ==
    minutes /= <<>> => minutes[1] = ChainMinutes(cell_text)

\* 60分以上 has been interpreted as 61, though it also matches <N>分 with N = 60
C3_Witness ==
    /\ cell_text = <<"6", "0", "fun", "i", "jou">>
    /\ minutes = <<61>>

----------------------------------------------------------------------------
(* Properties of the Date Normalizer and of the weekday columns *)

\* the places <<i, a, b>> where a month digits, 月, b day digits, 日 start at i
DateMatches(t) ==
    {m \in (1..Len(t)) \X {1, 2} \X {1, 2} :
        LET month_at == m[1]
            gatsu_at == m[1] + m[2]
            day_at == m[1] + m[2] + 1
            nichi_at == m[1] + m[2] + m[3] + 1
        IN  /\ nichi_at <= Len(t)
            /\ \A k \in month_at..(gatsu_at - 1) : t[k] \in Digits
            /\ t[gatsu_at] = "gatsu"
            /\ \A k \in day_at..(nichi_at - 1) : t[k] \in Digits
            /\ t[nichi_at] = "nichi"}

\* the match that starts first
FirstDateMatch(t) ==
    CHOOSE m \in DateMatches(t) : \A n \in DateMatches(t) : m[1] <= n[1]

\* the month and the day written in the text
MonthOfText(t) ==
    LET m == FirstDateMatch(t) IN DecimalValue(SubSeq(t, m[1], m[1] + m[2] - 1), 0)
DayOfText(t) ==
    LET m == FirstDateMatch(t)
    IN  DecimalValue(SubSeq(t, m[1] + m[2] + 1, m[1] + m[2] + m[3]), 0)

\* C4: with one "now" for the whole call, a text holding <month>月<day>日 gives the date
\* with that month and day and the year of now, or the year before when month > month
\* of now; a text without the pattern gives None.
C4_YearInference ==
    parse_pc = "done" =>
        IF DateMatches(date_text) = {} THEN parse_result = NoValue
        ELSE t_year = t_month =>
                /\ IsIsoShape(parse_result)
                /\ IsoMonth(parse_result) = MonthOfText(date_text)
                /\ IsoDay(parse_result) = DayOfText(date_text)
                /\ IsoYear(parse_result) =
                      IF MonthOfText(date_text) > t_year.month THEN t_year.year - 1
                      ELSE t_year.year

\* a call under one "now" has put a date into the year before
C4_Witness ==
    /\ parse_pc = "done"
    /\ DateMatches(date_text) /= {}
    /\ t_year = t_month
    /\ MonthOfText(date_text) \in 1..12
    /\ IsoYear(parse_result) = t_year.year - 1

\* C5 as stated: every date the Date Normalizer produces has a month in 1..12 and a day
\* in 1..31.
C5_MonthDayRange ==
    (parse_pc = "done" /\ parse_result /= NoValue) =>
        /\ IsoMonth(parse_result) \in 1..12
        /\ IsoDay(parse_result) \in 1..31

\* the weekday of a calendar date, Monday = 0, by Sakamoto's method
SakamotoWeekday(y, m, d) ==
    LET t == <<0, 3, 2, 5, 0, 3, 5, 1, 4, 6, 2, 4>>
        yy == IF m < 3 THEN y - 1 ELSE y
        sunday0 == (yy + (yy \div 4) - (yy \div 100) + (yy \div 400) + t[m] + d) % 7
    IN  (sunday0 + 6) % 7

\* the text names a day of the calendar
IsCalendarDate(s) ==
    LET y == DecimalValue(SubSeq(s, 1, 4), 0)
        m == DecimalValue(SubSeq(s, 6, 7), 0)
        d == DecimalValue(SubSeq(s, 9, 10), 0)
        leap == (y % 4 = 0 /\ y % 100 /= 0) \/ y % 400 = 0
    IN  /\ m \in 1..12
        /\ d >= 1
        /\ d <= <<31, IF leap THEN 29 ELSE 28, 31, 30, 31, 30, 31, 31, 30, 31, 30, 31>>[m]

\* the label of a calendar date: 月 for Monday ... 日 for Sunday
MondayFirstLabel(s) ==
    LET w == SakamotoWeekday(DecimalValue(SubSeq(s, 1, 4), 0),
                             DecimalValue(SubSeq(s, 6, 7), 0),
                             DecimalValue(SubSeq(s, 9, 10), 0))
    IN  CASE w = 0 -> "getsu" [] w = 1 -> "ka" [] w = 2 -> "sui" [] w = 3 -> "moku"
          [] w = 4 -> "kin" [] w = 5 -> "do" [] w = 6 -> "nichi"

WeekdayLabels == {"getsu", "ka", "sui", "moku", "kin", "do", "nichi"}

----------------------------------------------------------------------------
(* Properties of the runs of the scraper and of the dashboard *)

\* C7 as stated: main() always reaches a normal exit, with a written dataset or a
\* printed message, and never ends with an uncaught exception.
C7_NormalExit == exit_status \in {"not run", "saved", "message"}

\* a step is a run of the scraper's main()
IsMainStep == n_runs' = n_runs + 1

\* C8: a run whose scrape yields an empty dataset does not call save_data and leaves
\* every dataset file as it was; the directory changes only in a run that has records.
C8_EmptyRunWritesNothing ==
    [][/\ (IsMainStep /\ all_data' = <<>>) =>
              (files' = files /\ exit_status' = "message")
       /\ files' /= files =>
              (IsMainStep /\ Len(all_data') > 0 /\ exit_status' = "saved")]_vars

\* a run with an empty dataset has ended with the message, an earlier file still there
C8_Witness ==
    /\ n_runs = 2
    /\ all_data = <<>>
    /\ exit_status = "message"
    /\ DOMAIN files /= {}

\* no file of the directory is removed or changed by the step
FilesKept == \A f \in DOMAIN files : f \in DOMAIN files' /\ files'[f] = files[f]

\* C9 as stated: every run that writes creates a new file and no file written before is
\* overwritten or changed, also when two runs write within the same clock second.
C9_Original ==
    [][/\ FilesKept
       /\ (IsMainStep /\ exit_status' = "saved") => DOMAIN files' /= DOMAIN files]_vars

\* C9 as amended: a run that writes in a clock second in which no file was written
\* creates a new file, and no file written in an earlier second is overwritten or
\* changed; a run that writes in the second of an earlier write replaces that file.
C9_Amended ==
    [][/\ \A f \in DOMAIN files :
              /\ f \in DOMAIN files'
              /\ files'[f] /= files[f] => files[f].ctime = clock
       /\ (IsMainStep /\ exit_status' = "saved"
              /\ \A f \in DOMAIN files : files[f].ctime /= clock) =>
              /\ Cardinality(DOMAIN files') = Cardinality(DOMAIN files) + 1
              /\ \E f \in DOMAIN files' \ DOMAIN files : files'[f].ctime = clock]_vars

\* two runs have written in different seconds and both files are there
C9_Witness ==
    /\ n_runs = 2
    /\ exit_status = "saved"
    /\ Cardinality(DOMAIN files) = 2

\* C10 as stated: every dashboard load shows the data of the most recently created
\* dataset file present at that load.
C10_LoadShowsLatest ==
    [][n_loads' = n_loads + 1 => shown' = LoadData(files)]_vars

----------------------------------------------------------------------------
(* Properties of the Record Assembler *)

\* the position of the first row whose joined text holds both 始発 and 終電, 0 if none
HeaderPosition(table) ==
    LET marked == {i \in 1..Len(table) :
                      /\ Contains(JoinText(table[i]), MarkerFirstTrain)
                      /\ Contains(JoinText(table[i]), MarkerLastTrain)}
    IN  IF marked = {} THEN 0 ELSE CHOOSE i \in marked : \A j \in marked : i <= j

\* a row whose first cell does not hold <month>月<day>日
IsUndatedRow(row) == Len(row) >= 1 /\ DateMatches(GetText(row[1])) = {}

\* the table without its undated rows, the header row kept
WithoutUndatedRows(table) ==
    LET h == HeaderPosition(table)
        Kept(row) == row = table[h] \/ ~IsUndatedRow(row)
    IN  IF h = 0 THEN table ELSE SelectSeq(table, Kept)

\* C11: in a table with a header row, the rows whose first cell holds no
\* <month>月<day>日 contribute no record and change no record of the other rows: the
\* dataset is the dataset of the page without those rows, and it is empty when every
\* row but the header is such a row.
C11_RowSkip ==
    n_runs = 1 =>
        /\ all_data = AnnotatedData(TRUE, [t \in 1..Len(page) |-> WithoutUndatedRows(page[t])],
                                    clock, clock)
        /\ (\A t \in 1..Len(page) : \A r \in 1..Len(page[t]) :
                r /= HeaderPosition(page[t]) => IsUndatedRow(page[t][r]))
              => all_data = <<>>

\* an undated row with a delay cell stands between the header and a dated row, and
\* only the dated row's two records are there
C11_Witness ==
    /\ n_runs = 1
    /\ page = <<<<HeaderRow, RowNoDate, RowJuly>>>>
    /\ Len(all_data) = 2
    /\ \A i \in 1..2 : all_data[i].date = <<"2", "0", "2", "5", "-", "0", "7", "-", "0", "3">>

\* the columns of the header row whose label the label filter accepts
AcceptedColumns(header_row) ==
    {j \in 2..Len(header_row) : IsTimeSlot(GetText(header_row[j]))}

\* a row that gives records when it is read as a data row
IsDatedDataRow(row) == Len(row) >= 2 /\ DateMatches(GetText(row[1])) /= {}

\* <<t, r, s>>: row r of table t, read as a data row under the header of its table,
\* gives a record for the s-th accepted label
SlotsOfRows(tables, IsDataRow(_, _)) ==
    {x \in (1..Len(tables)) \X (1..MaxRows + 1) \X (1..MaxCells + 1) :
        LET t == x[1]
            r == x[2]
            s == x[3]
            h == HeaderPosition(tables[t])
        IN  /\ h /= 0
            /\ r <= Len(tables[t])
            /\ IsDataRow(tables[t], r)
            /\ IsDatedDataRow(tables[t][r])
            /\ s <= Cardinality(AcceptedColumns(tables[t][h]))
            /\ s <= Len(tables[t][r]) - 1}

\* every row but the header row is a data row
IsOtherRow(table, r) == r /= HeaderPosition(table)

\* C12 as stated: a table without a row that holds both 始発 and 終電 gives no record,
\* whatever its rows hold; in a table with such rows the first of them is the header
\* and every other row is read as a data row, so every dated row of two or more cells
\* but the header gives its records.
C12_TableSkip ==
    n_runs = 1 =>
        /\ (\A t \in 1..Len(page) : HeaderPosition(page[t]) = 0) => all_data = <<>>
        /\ Len(all_data) = Cardinality(SlotsOfRows(page, IsOtherRow))

\* a row the data loop does not skip at line 69: one that differs from the header row
IsReadRow(table, r) == table[r] /= table[HeaderPosition(table)]

\* C13 as stated: every record's time_slot is the header label of the column its
\* delay_info was read from, for every header layout, also one in which a cell after
\* the first is rejected by the label filter: some read row holds the delay_info in a
\* column whose header cell holds the time_slot.
C13_SlotAlignment ==
    n_runs = 1 =>
        \A i \in 1..Len(all_data) :
            \E t \in 1..Len(page) : \E r \in 1..Len(page[t]) :
                LET header_row == page[t][HeaderPosition(page[t])]
                IN  /\ HeaderPosition(page[t]) /= 0
                    /\ IsReadRow(page[t], r)
                    /\ \E j \in 2..Len(page[t][r]) :
                          /\ j <= Len(header_row)
                          /\ all_data[i].time_slot = GetText(header_row[j])
                          /\ all_data[i].delay_info = GetText(page[t][r][j])

\* the s-th label of the header row that the label filter accepts
NthAcceptedLabel(header_row, s) ==
    LET accepted == AcceptedColumns(header_row)
    IN  GetText(header_row[CHOOSE j \in accepted :
                              Cardinality({i \in accepted : i <= j}) = s])

Min(a, b) == IF a <= b THEN a ELSE b

SlotBefore(x, y) ==
    \/ x[1] < y[1]
    \/ x[1] = y[1] /\ x[2] < y[2]
    \/ x[1] = y[1] /\ x[2] = y[2] /\ x[3] < y[3]

\* C15: the dataset holds one record for every slot of every read, dated row of every
\* table with a header, in table order, then row order, then slot order; none is
\* removed or merged, so two tables with equal rows give their records twice.
C15_EncounterOrder ==
    n_runs = 1 =>
        LET slots == SlotsOfRows(page, IsReadRow)
        IN  /\ Len(all_data) = Cardinality(slots)
            /\ \A x \in slots :
                  LET table == page[x[1]]
                      cells == table[x[2]]
                      record == all_data[Cardinality({y \in slots : SlotBefore(y, x)}) + 1]
                  IN  /\ IsoMonth(record.date) = MonthOfText(GetText(cells[1]))
                      /\ IsoDay(record.date) = DayOfText(GetText(cells[1]))
                      /\ record.time_slot = NthAcceptedLabel(table[HeaderPosition(table)], x[3])
                      /\ record.delay_info = GetText(cells[x[3] + 1])

\* two tables with the same rows have given the same records twice, the second
\* table's after the first's
C15_Witness ==
    /\ n_runs = 1
    /\ page = <<<<HeaderRow, RowJuly, RowDecember>>, <<HeaderRow, RowJuly, RowDecember>>>>
    /\ Len(all_data) = 8
    /\ \A i \in 1..4 : all_data[i] = all_data[i + 4]
    /\ all_data[1].date /= all_data[3].date

----------------------------------------------------------------------------
(* The two clock reads of _parse_date *)

\* C16 as stated: the year and the month that one _parse_date call uses belong to one
\* instant T within the call, also when the clock passes a year boundary during the
\* call: the year of the result is the year of T, or the year before when the month of
\* the text is greater than the month of T.
C16_SameInstant ==
    (parse_pc = "done" /\ DateMatches(date_text) /= {}) =>
        \E T \in {t_year, t_month} :
            IsoYear(parse_result) =
                IF MonthOfText(date_text) > T.month THEN T.year - 1 ELSE T.year

====
